---- MODULE Spec2Model ----
(***************************************************************************)
(* Model of django_exportable_admin/admin.py: the ExportableAdmin mixin    *)
(* (get_paginator, get_export_buttons, changelist_view, export_type_xls,   *)
(* get_urls) running inside the host admin's request handling.             *)
(*                                                                         *)
(* Texts (Python str/unicode) are sequences of one-character strings, so   *)
(* that lower(), upper(), slugify() and the % formatting are computed.     *)
(* Dicts are functions whose DOMAIN is the set of keys.                    *)
(***************************************************************************)
EXTENDS Integers, Sequences, FiniteSets, TLC

\* ------------------------------------------------------------------ bounds
MaxFormats == 2
MaxTypes == 2
MaxDisplay == 3
MaxLimit == 2
MaxPerPage == 2
MaxRows == 3
MaxPage == 1
MaxOrphans == 1

\* ------------------------------------------------------------------- texts
UPPERS == <<"A","B","C","D","E","F","G","H","I","J","K","L","M",
            "N","O","P","Q","R","S","T","U","V","W","X","Y","Z">>
LOWERS == <<"a","b","c","d","e","f","g","h","i","j","k","l","m",
            "n","o","p","q","r","s","t","u","v","w","x","y","z">>
DIGITS == <<"0","1","2","3","4","5","6","7","8","9">>

InSeq(c, s) == \E i \in 1..Len(s) : s[i] = c
IndexOf(c, s) == CHOOSE i \in 1..Len(s) : s[i] = c

LowerChar(c) == IF InSeq(c, UPPERS) THEN LOWERS[IndexOf(c, UPPERS)] ELSE c
UpperChar(c) == IF InSeq(c, LOWERS) THEN UPPERS[IndexOf(c, LOWERS)] ELSE c

\* str.lower() / str.upper()
Lower(t) == [i \in 1..Len(t) |-> LowerChar(t[i])]
Upper(t) == [i \in 1..Len(t) |-> UpperChar(t[i])]

\* unicode(n) for a non-negative integer
RECURSIVE Decimal(_)
Decimal(n) == IF n < 10 THEN <<DIGITS[n + 1]>>
              ELSE Decimal(n \div 10) \o <<DIGITS[(n % 10) + 1]>>

\* django.template.defaultfilters.slugify: drop what is not a word
\* character, whitespace or hyphen; strip; lower; runs of hyphens and
\* whitespace become one hyphen.
IsWordChar(c) == InSeq(c, UPPERS) \/ InSeq(c, LOWERS) \/ InSeq(c, DIGITS) \/ c = "_"
IsSpace(c) == c = " "
KeepSlugChars(t) == SelectSeq(t, LAMBDA c : IsWordChar(c) \/ IsSpace(c) \/ c = "-")

RECURSIVE LStrip(_)
LStrip(t) == IF t # <<>> /\ IsSpace(Head(t)) THEN LStrip(Tail(t)) ELSE t
RECURSIVE RStrip(_)
RStrip(t) == IF t # <<>> /\ IsSpace(t[Len(t)]) THEN RStrip(SubSeq(t, 1, Len(t) - 1)) ELSE t
Strip(t) == RStrip(LStrip(t))

IsSep(c) == IsSpace(c) \/ c = "-"
RECURSIVE CollapseSeps(_)
CollapseSeps(t) ==
    IF t = <<>> THEN <<>>
    ELSE IF IsSep(Head(t))
         THEN IF Len(t) > 1 /\ IsSep(t[2]) THEN CollapseSeps(Tail(t))
              ELSE <<"-">> \o CollapseSeps(Tail(t))
         ELSE <<Head(t)>> \o CollapseSeps(Tail(t))

slugify(t) == CollapseSeps(Lower(Strip(KeepSlugChars(t))))

\* -------------------------------------------------------- string literals
TXT_Export == <<"E","x","p","o","r","t"," ">>                     \* 'Export '
TXT_admin == <<"a","d","m","i","n",":">>                          \* 'admin:'
TXT_export_mid == <<"_","e","x","p","o","r","t","_">>             \* '_export_'
TXT_export_slash == <<"e","x","p","o","r","t","/">>               \* 'export/'
TXT_export_type == <<"e","x","p","o","r","t","_","t","y","p","e","_">>
TXT_csv_ext == <<".","c","s","v">>
TXT_xls_ext == <<".","x","l","s">>
TXT_attachment_sp == <<"a","t","t","a","c","h","m","e","n","t",";"," ",
                       "f","i","l","e","n","a","m","e","=">>
TXT_attachment == <<"a","t","t","a","c","h","m","e","n","t",";",
                    "f","i","l","e","n","a","m","e","=">>
TXT_xls == <<"x","l","s">>

\* ------------------------------------------------------------ python values
\* None or a dict: extra_context=None is [none |-> TRUE, d |-> {}-dict]
EmptyDict == [k \in {} |-> <<>>]
None == [none |-> TRUE, d |-> EmptyDict]
Dict(f) == [none |-> FALSE, d |-> f]
\* truth value of "extra_context" in "if extra_context and ..."
Truthy(ec) == ~ec.none /\ DOMAIN ec.d # {}
\* "key in extra_context", evaluated only behind Truthy
HasKey(ec, k) == k \in DOMAIN ec.d

\* a model instance attribute value: an integer or a text
IntVal(n) == [t |-> "int", v |-> n]
StrVal(s) == [t |-> "str", v |-> s]
\* unicode(value)
unicode(val) == IF val.t = "int" THEN Decimal(val.v) ELSE val.v
\* getattr(row, fieldname, '')
getattr(row, fieldname) == IF fieldname \in DOMAIN row THEN row[fieldname] ELSE StrVal(<<>>)

\* --------------------------------------------------- the registered model
F_id == <<"i","d">>
F_name == <<"n","a","m","e">>
F_action_checkbox == <<"a","c","t","i","o","n","_","c","h","e","c","k","b","o","x">>

\* model._meta.fields: the name field has an empty verbose_name, the id
\* field has one
MetaFields == << [name |-> F_id, verbose_name |-> <<"K","e","y">>],
                 [name |-> F_name, verbose_name |-> <<>>] >>

MetaPost == [app_label |-> <<"b","l","o","g">>,
             module_name |-> <<"p","o","s","t">>,
             verbose_name |-> <<"B","l","o","g"," "," ","p","o","s","t","!">>,
             verbose_name_plural |-> <<"B","l","o","g"," ","P","o","s","t","s">>,
             fields |-> MetaFields]
MetaTag == [app_label |-> <<"b","l","o","g">>,
            module_name |-> <<"t","a","g">>,
            verbose_name |-> <<"t","a","g">>,
            verbose_name_plural |-> <<"t","a","g","s">>,
            fields |-> MetaFields]
Metas == {MetaPost, MetaTag}

\* the table behind the model: row k has id k
NAMES == << <<"a","n","n">>, <<"B","o","b">>, <<"c","y">>, <<"D","i">>, <<"e","d">> >>
RowOf(k) == (F_id :> IntVal(k)) @@ (F_name :> StrVal(NAMES[((k - 1) % Len(NAMES)) + 1]))
Ascending(n) == [i \in 1..n |-> RowOf(i)]
Descending(n) == [i \in 1..n |-> RowOf(n + 1 - i)]
\* the filtered and sorted result sets a request can select
QuerySets == {Ascending(n) : n \in 0..MaxRows} \cup {Descending(MaxRows)}

\* ------------------------------------------------- admin class attributes
CSV == <<"C","S","V">>
Pipe == <<"P","i","p","e">>
Pdf == <<"P","d","f">>
FormatEntries == { <<CSV, <<",">> >>, <<Pipe, <<"|">> >> }
TypeNames == { TXT_xls, Pdf }
DisplayNames == { F_action_checkbox, F_id, F_name }

SeqsUpTo(S, n) == UNION { [1..k -> S] : k \in 0..n }

change_list_template == "django_exportable_admin/change_list_exportable.html"
change_list_csv_template == "django_exportable_admin/change_list_csv.html"

\* methods named export_type_* that the class defines
ExportTypeMethods == { TXT_export_type \o TXT_xls }

VARIABLES
    meta,                   \* self.model._meta
    export_formats,         \* class attribute, tuple of (name, delimiter)
    export_types,           \* class attribute, tuple of names
    export_queryset_limit,  \* class attribute
    list_display,           \* class attribute
    list_per_page,          \* host class attribute
    urls,                   \* the admin's route table, <<>> until get_urls ran
    request,                \* the current request object
    result,                 \* what the last call returned
    export_seen             \* some earlier request was an export request

config == <<meta, export_formats, export_types, export_queryset_limit,
            list_display, list_per_page>>
vars == <<meta, export_formats, export_types, export_queryset_limit,
          list_display, list_per_page, urls, request, result, export_seen>>

\* ------------------------------------------------------- host: paginator
Min(a, b) == IF a < b THEN a ELSE b
Max(a, b) == IF a > b THEN a ELSE b
\* Python s[bottom:top] for 0 <= bottom
PySlice(s, bottom, top) == SubSeq(s, bottom + 1, Min(top, Len(s)))

\* self.paginator(queryset, per_page, orphans, allow_empty_first_page)
Paginator(queryset, per_page, orphans, allow_empty_first_page) ==
    [object_list |-> queryset, per_page |-> per_page, orphans |-> orphans,
     allow_empty_first_page |-> allow_empty_first_page]

NumPages(p) ==
    LET count == Len(p.object_list)
        hits == Max(1, count - p.orphans)
    IN  IF count = 0 /\ ~p.allow_empty_first_page THEN 0
        ELSE (hits + p.per_page - 1) \div p.per_page

ValidPage(p, number) ==
    /\ number >= 1
    /\ (number > NumPages(p) => (number = 1 /\ p.allow_empty_first_page))

\* paginator.page(number).object_list, for a valid page number
PageObjects(p, number) ==
    LET count == Len(p.object_list)
        bottom == (number - 1) * p.per_page
        top0 == bottom + p.per_page
        top == IF top0 + p.orphans >= count THEN count ELSE top0
    IN  PySlice(p.object_list, bottom, top)

\* ------------------------------------------------------------ the request
HasExportFlag(req) == "is_export_request" \in req.attrs
SetExportFlag(req) == [req EXCEPT !.attrs = @ \cup {"is_export_request"}]
\* the request object the host creates for an incoming request
NewRequest(page) == [page |-> page, attrs |-> {}]

\* ExportableAdmin.get_paginator with the flag read wrongly: always export
get_paginator_always(req, queryset, per_page, orphans, allow_empty_first_page) ==
    Paginator(queryset, export_queryset_limit, 0, TRUE)

\* ExportableAdmin.get_paginator
get_paginator(req, queryset, per_page, orphans, allow_empty_first_page) ==
    IF HasExportFlag(req)
    THEN Paginator(queryset, export_queryset_limit, 0, TRUE)
    ELSE Paginator(queryset, per_page, orphans, allow_empty_first_page)

\* ------------------------------------------------------------- the routes
Route(regex, view, name, kwargs) ==
    [regex |-> regex, view |-> view, name |-> name, kwargs |-> kwargs]

\* "%s_%s_export_%s" % (app, mod, name.lower())
ExportRouteName(name) ==
    meta.app_label \o <<"_">> \o meta.module_name \o TXT_export_mid \o Lower(name)
\* r'^export/%s$' % name.lower()
ExportRegex(name) == <<"^">> \o TXT_export_slash \o Lower(name) \o <<"$">>

\* super(ExportableAdmin, self).get_urls(): the host's routes of the model
HostUrls ==
    LET info == meta.app_label \o <<"_">> \o meta.module_name
    IN  << Route(<<"^","$">>, "changelist_view",
                 info \o <<"_","c","h","a","n","g","e","l","i","s","t">>, EmptyDict),
           Route(<<"^","a","d","d","/","$">>, "add_view",
                 info \o <<"_","a","d","d">>, EmptyDict),
           Route(<<"^","(",".","+",")","/","$">>, "change_view",
                 info \o <<"_","c","h","a","n","g","e">>, EmptyDict) >>

\* the list comprehension of get_urls over export_formats
FormatUrls ==
    [i \in 1..Len(export_formats) |->
        Route(ExportRegex(export_formats[i][1]), "changelist_view",
              ExportRouteName(export_formats[i][1]),
              "extra_context" :> Dict("export_delimiter" :> export_formats[i][2]))]

\* the loop of get_urls over export_types
TypeUrls ==
    [i \in 1..Len(export_types) |->
        Route(ExportRegex(export_types[i]), "changelist_view",
              ExportRouteName(export_types[i]),
              "extra_context" :> Dict("export_type" :> Lower(export_types[i])))]

new_urls == FormatUrls \o TypeUrls

\* get_urls with the host's routes first
get_urls_host_first == HostUrls \o new_urls
\* get_urls without the loop over export_types
get_urls_formats_only == FormatUrls \o HostUrls

\* ExportableAdmin.get_urls
get_urls == new_urls \o HostUrls

\* --------------------------------------------------------- host: reverse()
\* the path a pattern stands for: the regex without ^ and $
PathOf(regex) == SelectSeq(regex, LAMBDA c : c # "^" /\ c # "$")
UrlPrefix == <<"/","a","d","m","i","n","/">> \o meta.app_label \o <<"/">>
             \o meta.module_name \o <<"/">>

\* reverse("admin:<name>") against the route table
reverse(viewname) ==
    LET name == SubSeq(viewname, Len(TXT_admin) + 1, Len(viewname))
        hits == {i \in 1..Len(urls) : urls[i].name = name}
    IN  IF SubSeq(viewname, 1, Len(TXT_admin)) = TXT_admin /\ hits # {}
        THEN [ok |-> TRUE,
              url |-> UrlPrefix \o PathOf(urls[CHOOSE i \in hits : \A k \in hits : i <= k].regex)]
        ELSE [ok |-> FALSE, url |-> <<>>]

\* the button of an entry: (text, link)
Button(text, name) ==
    [text |-> text,
     link |-> reverse(TXT_admin \o ExportRouteName(name))]

\* get_export_buttons with the types' names not lowercased in the route name
get_export_buttons_upper ==
    [i \in 1..Len(export_formats) |->
        Button(TXT_Export \o export_formats[i][1], export_formats[i][1])]
    \o
    [i \in 1..Len(export_types) |->
        [text |-> TXT_Export \o Upper(export_types[i]),
         link |-> reverse(TXT_admin \o meta.app_label \o <<"_">> \o meta.module_name
                          \o TXT_export_mid \o Upper(export_types[i]))]]

\* ExportableAdmin.get_export_buttons
get_export_buttons ==
    [i \in 1..Len(export_formats) |->
        Button(TXT_Export \o export_formats[i][1], export_formats[i][1])]
    \o
    [i \in 1..Len(export_types) |->
        Button(TXT_Export \o Upper(export_types[i]), export_types[i])]

\* ------------------------------------------------ host: the list view
ErrorResponse(exc) == [kind |-> "error", exc |-> exc]

\* super(ExportableAdmin, self).changelist_view(request, extra_context):
\* the ChangeList asks get_paginator for the paginator of the filtered and
\* sorted query set, shows the whole set when it fits one host page and the
\* requested page otherwise, and answers an invalid page with a redirect.
HostChangelistView(req, ec, queryset) ==
    LET paginator == get_paginator(req, queryset, list_per_page, 0, TRUE)
        multi_page == Len(queryset) > list_per_page
    IN  IF multi_page /\ ~ValidPage(paginator, req.page + 1)
        THEN [kind |-> "HttpResponseRedirect", template_name |-> "",
              headers |-> ("Content-Type" :> "text/html; charset=utf-8"),
              has_context |-> FALSE, context_data |-> EmptyDict]
        ELSE [kind |-> "TemplateResponse", template_name |-> change_list_template,
              headers |-> ("Content-Type" :> "text/html; charset=utf-8"),
              has_context |-> TRUE,
              context_data |->
                  ec.d @@ ("cl" :> [query_set |-> queryset,
                                    paginator |-> paginator,
                                    result_list |->
                                        IF multi_page
                                        THEN PageObjects(paginator, req.page + 1)
                                        ELSE queryset])]

\* the rows the CSV template writes: one per entry of cl.result_list
CsvRecordRows(response) ==
    IF response.has_context THEN response.context_data["cl"].result_list ELSE <<>>

\* ------------------------------------------------------- export_type_xls
\* modeladmin.list_display with every entry
export_fields_all == list_display
\* modeladmin.list_display[1:]
export_fields == IF list_display = <<>> THEN <<>> ELSE Tail(list_display)

\* get_verbose_name, the closure of export_type_xls
get_verbose_name(fieldname) ==
    LET name == SelectSeq(meta.fields, LAMBDA x : x.name = fieldname)
    IN  IF name # <<>>
        THEN Upper(IF name[1].verbose_name # <<>> THEN name[1].verbose_name
                   ELSE name[1].name)
        ELSE Upper(fieldname)

SheetCells(nrows, ncols) == (0..(nrows - 1)) \X (0..(ncols - 1))

\* the two write loops with the records written from row 0 on
xls_sheet_row0(queryset) ==
    [c \in SheetCells(Max(1, Len(queryset)), Len(export_fields)) |->
        IF c[1] >= Len(queryset)
        THEN get_verbose_name(export_fields[c[2] + 1])
        ELSE unicode(getattr(queryset[c[1] + 1], export_fields[c[2] + 1]))]

\* the two write loops: sht.write(0, j, label), sht.write(i + 1, j, value);
\* the sheet is the function from the written cells (row, column) to values
xls_sheet(queryset) ==
    [c \in SheetCells(1 + Len(queryset), Len(export_fields)) |->
        IF c[1] = 0
        THEN get_verbose_name(export_fields[c[2] + 1])
        ELSE unicode(getattr(queryset[c[1]], export_fields[c[2] + 1]))]

\* ExportableAdmin.export_type_xls (the print to stdout is left out)
export_type_xls(req, response, ec) ==
    IF ~response.has_context THEN ErrorResponse("AttributeError")
    ELSE LET queryset == response.context_data["cl"].query_set
             filename == Lower(meta.verbose_name_plural) \o TXT_xls_ext
         IN  [kind |-> "HttpResponse", mimetype |-> "application/ms-excel",
              headers |-> ("Content-Disposition" :> (TXT_attachment \o filename)),
              sheet_name |-> meta.verbose_name_plural,
              sheet |-> xls_sheet(queryset)]

\* the rows of a sheet below the header
XlsRecordRows(sheet) == {c[1] : c \in DOMAIN sheet} \ {0}

\* -------------------------------------------------------- changelist_view
\* the Content-Disposition of a delimited export without slugify
csv_disposition_raw == TXT_attachment_sp \o meta.verbose_name \o TXT_csv_ext
\* 'attachment; filename=%s.csv' % slugify(self.model._meta.verbose_name)
csv_disposition == TXT_attachment_sp \o slugify(meta.verbose_name) \o TXT_csv_ext

\* the dispatch with a fall back to the list response
dispatch_export_type_fallback(req, response, ec) ==
    IF (TXT_export_type \o ec.d["export_type"]) \in ExportTypeMethods
    THEN export_type_xls(req, response, ec)
    ELSE response

\* method = getattr(self, "export_type_%s" % ...); method(request, response, ...)
dispatch_export_type(req, response, ec) ==
    IF (TXT_export_type \o ec.d["export_type"]) \in ExportTypeMethods
    THEN export_type_xls(req, response, ec)
    ELSE ErrorResponse("AttributeError")

\* request.is_export_request = True, left out
mark_export_noop(req) == req
\* request.is_export_request = True
mark_export(req) == SetExportFlag(req)

\* ExportableAdmin.changelist_view: the request as it is left and the response
changelist_view(req, ec, queryset) ==
    IF Truthy(ec) /\ HasKey(ec, "export_delimiter")
    THEN LET req1 == mark_export(req)
             response == HostChangelistView(req1, ec, queryset)
         IN  [request |-> req1,
              response |-> [response EXCEPT
                  !.template_name = change_list_csv_template,
                  !.headers = ("Content-Type" :> "text/csv")
                              @@ ("Content-Disposition" :> csv_disposition) @@ @]]
    ELSE IF Truthy(ec) /\ HasKey(ec, "export_type")
    THEN LET req1 == mark_export(req)
             response == HostChangelistView(req1, ec, queryset)
         IN  [request |-> req1,
              response |-> dispatch_export_type(req1, response, ec)]
    ELSE LET buttons == get_export_buttons
             ec1 == IF Truthy(ec) THEN ec ELSE Dict(EmptyDict)
             ec2 == Dict(("export_buttons" :> buttons) @@ ec1.d)
         IN  [request |-> req,
              response |->
                  IF \E i \in 1..Len(buttons) : ~buttons[i].link.ok
                  THEN ErrorResponse("NoReverseMatch")
                  ELSE HostChangelistView(req, ec2, queryset)]

\* ------------------------------------------------------------- the machine
\* extra_context values of callers other than the routes
DirectContexts ==
    { None, Dict(EmptyDict),
      Dict(("export_delimiter" :> <<";">>) @@ ("export_type" :> TXT_xls)),
      Dict("title" :> <<"A","l","l">>) }

\* the class attributes the model starts from: every combination of
\* export_formats and export_types on a class with the usual list view, and
\* every list view (list_display, limit, page size) on a class with one
\* delimited format and the xls type
RouteConfigs ==
    [meta : Metas,
     export_formats : SeqsUpTo(FormatEntries, MaxFormats),
     export_types : SeqsUpTo(TypeNames, MaxTypes),
     export_queryset_limit : {MaxLimit},
     list_display : {<<F_action_checkbox, F_id, F_name>>},
     list_per_page : {1}]
ListConfigs ==
    [meta : {MetaPost},
     export_formats : {<< <<CSV, <<",">> >> >>},
     export_types : {<<TXT_xls>>},
     export_queryset_limit : 1..MaxLimit,
     list_display : SeqsUpTo(DisplayNames, MaxDisplay),
     list_per_page : 1..MaxPerPage]

Init ==
    /\ \E c \in RouteConfigs \cup ListConfigs :
          /\ meta = c.meta
          /\ export_formats = c.export_formats
          /\ export_types = c.export_types
          /\ export_queryset_limit = c.export_queryset_limit
          /\ list_display = c.list_display
          /\ list_per_page = c.list_per_page
    /\ urls = <<>>
    /\ request = NewRequest(0)
    /\ result = [op |-> "none"]
    /\ export_seen = FALSE

\* the site builds its URLconf
GetUrls ==
    /\ urls = <<>>
    /\ urls' = get_urls
    /\ result' = [op |-> "none"]
    /\ UNCHANGED <<config, request, export_seen>>

Handle(req, ec, queryset) ==
    LET out == changelist_view(req, ec, queryset)
    IN  /\ request' = out.request
        /\ result' = [op |-> "changelist_view", extra_context |-> ec,
                      query_set |-> queryset, response |-> out.response]
        /\ export_seen' = (export_seen \/ HasExportFlag(out.request))
        /\ UNCHANGED <<config, urls>>

\* the first route whose pattern is the requested one
Resolve(regex) == CHOOSE i \in 1..Len(urls) :
                      /\ urls[i].regex = regex
                      /\ \A k \in 1..Len(urls) : urls[k].regex = regex => i <= k

\* a request that the route table hands to changelist_view
RoutedRequest ==
    /\ urls # <<>>
    /\ result.op = "none"
    /\ \E r \in 1..Len(urls), page \in 0..MaxPage, queryset \in QuerySets :
          LET route == urls[Resolve(urls[r].regex)]
          IN  /\ route.view = "changelist_view"
              /\ Handle(NewRequest(page),
                        IF "extra_context" \in DOMAIN route.kwargs
                        THEN route.kwargs["extra_context"] ELSE None,
                        queryset)

\* changelist_view called with an extra_context of the caller's own
DirectRequest ==
    /\ urls # <<>>
    /\ result.op = "none"
    /\ \E ec \in DirectContexts, page \in 0..MaxPage, queryset \in QuerySets :
          Handle(NewRequest(page), ec, queryset)

\* the host asks for a paginator for the request it is serving
HostGetPaginator ==
    /\ result.op # "none"
    /\ \E queryset \in {Ascending(MaxRows)}, per_page \in 1..MaxPerPage,
          orphans \in 0..MaxOrphans, allow_empty_first_page \in BOOLEAN :
          result' = [op |-> "get_paginator", per_page |-> per_page,
                     orphans |-> orphans,
                     allow_empty_first_page |-> allow_empty_first_page,
                     query_set |-> queryset,
                     paginator |-> get_paginator(request, queryset, per_page,
                                                 orphans, allow_empty_first_page)]
    /\ UNCHANGED <<config, urls, request, export_seen>>

\* the host sends the response and drops the request object
SendResponse ==
    /\ result.op # "none"
    /\ result' = [op |-> "none"]
    /\ request' = NewRequest(0)
    /\ UNCHANGED <<config, urls, export_seen>>

Next == GetUrls \/ RoutedRequest \/ DirectRequest \/ HostGetPaginator \/ SendResponse

Spec == Init /\ [][Next]_vars

\* =================================================================== claims
IsChangelistResult == result.op = "changelist_view"
IsDelimitedContext(ec) == ~ec.none /\ "export_delimiter" \in DOMAIN ec.d
IsTypeContext(ec) == ~ec.none /\ "export_type" \in DOMAIN ec.d
                     /\ "export_delimiter" \notin DOMAIN ec.d
IsListResponse(response) == response.kind = "TemplateResponse"
Columns(sheet) == {c[2] : c \in DOMAIN sheet}

\* C1: get_paginator builds the paginator with (export_queryset_limit, 0,
\* True) when the request carries is_export_request, whatever values were
\* passed, and with exactly the passed per_page, orphans and
\* allow_empty_first_page when it does not.
C1_GetPaginator ==
    result.op = "get_paginator" =>
        /\ result.paginator.object_list = result.query_set
        /\ IF "is_export_request" \in request.attrs
           THEN /\ result.paginator.per_page = export_queryset_limit
                /\ result.paginator.orphans = 0
                /\ result.paginator.allow_empty_first_page = TRUE
           ELSE /\ result.paginator.per_page = result.per_page
                /\ result.paginator.orphans = result.orphans
                /\ result.paginator.allow_empty_first_page = result.allow_empty_first_page

C1_Witness ==
    /\ result.op = "get_paginator"
    /\ "is_export_request" \in request.attrs
    /\ result.per_page # export_queryset_limit
    /\ result.orphans = 1
    /\ result.allow_empty_first_page = FALSE

\* C2: every export response, delimited or spreadsheet, holds at most
\* export_queryset_limit record rows.
C2_ExportRowCap ==
    (IsChangelistResult /\ "is_export_request" \in request.attrs) =>
        CASE result.response.kind = "HttpResponse" ->
                 Cardinality(XlsRecordRows(result.response.sheet)) <= export_queryset_limit
          [] result.response.kind = "error" -> TRUE
          [] OTHER ->
                 Len(CsvRecordRows(result.response)) <= export_queryset_limit

\* the routes of the table that carry an extra_context
ExportRoutes == SelectSeq(urls, LAMBDA r : "extra_context" \in DOMAIN r.kwargs)
ExpectedRegex(name) == <<"^","e","x","p","o","r","t","/">> \o Lower(name) \o <<"$">>
ExpectedName(name) ==
    meta.app_label \o <<"_">> \o meta.module_name
    \o <<"_","e","x","p","o","r","t","_">> \o Lower(name)

\* C3: get_urls registers one export route per configured entry, with
\* pattern export/<lowercased name>, name <app>_<model>_export_<lowercased
\* name> and extra_context {export_delimiter: delimiter} for a format and
\* {export_type: lowercased name} for a type; the number of export routes is
\* len(export_formats) + len(export_types), none when both are empty.
C3_ExportRoutes ==
    urls # <<>> =>
        LET nf == Len(export_formats)
            nt == Len(export_types)
        IN  /\ Len(ExportRoutes) = nf + nt
            /\ Len(urls) = Len(HostUrls) + nf + nt
            /\ \A i \in 1..nf :
                  /\ ExportRoutes[i].regex = ExpectedRegex(export_formats[i][1])
                  /\ ExportRoutes[i].name = ExpectedName(export_formats[i][1])
                  /\ ExportRoutes[i].view = "changelist_view"
                  /\ ExportRoutes[i].kwargs =
                        ("extra_context" :>
                            [none |-> FALSE,
                             d |-> ("export_delimiter" :> export_formats[i][2])])
                  /\ (meta = MetaPost /\ export_formats[i][1] = CSV) =>
                        /\ ExportRoutes[i].name = <<"b","l","o","g","_","p","o","s","t","_","e","x","p","o","r","t","_","c","s","v">>
                        /\ ExportRoutes[i].regex = <<"^","e","x","p","o","r","t","/","c","s","v","$">>
            /\ \A i \in 1..nt :
                  /\ ExportRoutes[nf + i].regex = ExpectedRegex(export_types[i])
                  /\ ExportRoutes[nf + i].name = ExpectedName(export_types[i])
                  /\ ExportRoutes[nf + i].view = "changelist_view"
                  /\ ExportRoutes[nf + i].kwargs =
                        ("extra_context" :>
                            [none |-> FALSE,
                             d |-> ("export_type" :> Lower(export_types[i]))])
                  /\ (meta = MetaTag /\ export_types[i] = Pdf) =>
                        /\ ExportRoutes[nf + i].name = <<"b","l","o","g","_","t","a","g","_","e","x","p","o","r","t","_","p","d","f">>
                        /\ ExportRoutes[nf + i].kwargs["extra_context"].d["export_type"]
                              = <<"p","d","f">>

C3_Witness ==
    /\ urls # <<>>
    /\ Len(export_formats) = 2
    /\ Len(export_types) = 2
    /\ export_types[1] = Pdf

\* C4 as stated: the table returned by get_urls has the host's routes first,
\* unchanged and in order, and the export routes after them.
C4_ExportAfterHost ==
    urls # <<>> =>
        /\ SubSeq(urls, 1, Len(HostUrls)) = HostUrls
        /\ \A i \in (Len(HostUrls) + 1)..Len(urls) : "extra_context" \in DOMAIN urls[i].kwargs

\* C4 amended: the table returned by get_urls holds every host route
\* unchanged and in its original order, and the export routes come before
\* the host's routes.
C4_ExportBeforeHost ==
    urls # <<>> =>
        LET n == Len(urls) - Len(HostUrls)
        IN  /\ n = Len(export_formats) + Len(export_types)
            /\ SubSeq(urls, n + 1, Len(urls)) = HostUrls
            /\ \A i \in 1..n : "extra_context" \in DOMAIN urls[i].kwargs

C4_Witness ==
    /\ urls # <<>>
    /\ Len(urls) = Len(HostUrls) + 3

\* the link a button must carry for an entry named name
ExpectedLink(name) ==
    <<"/","a","d","m","i","n","/">> \o meta.app_label \o <<"/">> \o meta.module_name
    \o <<"/","e","x","p","o","r","t","/">> \o Lower(name)
RouteOfLink(link) ==
    {k \in 1..Len(urls) :
        link.url = <<"/","a","d","m","i","n","/">> \o meta.app_label \o <<"/">>
                   \o meta.module_name \o <<"/">> \o PathOf(urls[k].regex)}

\* C5: get_export_buttons gives one button per configured entry, formats
\* first and then types, each in configuration order, labelled 'Export N'
\* and 'Export ' + uppercased T; every button's link resolves to the route
\* get_urls registered for that entry, and every export route has a button.
C5_ExportButtons ==
    (IsChangelistResult /\ "is_export_request" \notin request.attrs) =>
        /\ result.response.kind # "error"
        /\ IsListResponse(result.response) =>
              LET buttons == result.response.context_data["export_buttons"]
                  nf == Len(export_formats)
                  nt == Len(export_types)
              IN  /\ Len(buttons) = nf + nt
                  /\ \A i \in 1..nf :
                        /\ buttons[i].text = <<"E","x","p","o","r","t"," ">> \o export_formats[i][1]
                        /\ buttons[i].link.ok
                        /\ buttons[i].link.url = ExpectedLink(export_formats[i][1])
                        /\ \E k \in RouteOfLink(buttons[i].link) :
                              /\ urls[k].name = ExpectedName(export_formats[i][1])
                              /\ urls[k].kwargs["extra_context"].d
                                    = ("export_delimiter" :> export_formats[i][2])
                        /\ (meta = MetaPost /\ export_formats[i][1] = Pipe) =>
                              /\ buttons[i].text = <<"E","x","p","o","r","t"," ","P","i","p","e">>
                              /\ buttons[i].link.url = <<"/","a","d","m","i","n","/","b","l","o","g","/","p","o","s","t","/","e","x","p","o","r","t","/","p","i","p","e">>
                  /\ \A i \in 1..nt :
                        /\ buttons[nf + i].text
                              = <<"E","x","p","o","r","t"," ">> \o Upper(export_types[i])
                        /\ buttons[nf + i].link.ok
                        /\ buttons[nf + i].link.url = ExpectedLink(export_types[i])
                        /\ \E k \in RouteOfLink(buttons[nf + i].link) :
                              /\ urls[k].name = ExpectedName(export_types[i])
                              /\ urls[k].kwargs["extra_context"].d
                                    = ("export_type" :> Lower(export_types[i]))
                        /\ (meta = MetaPost /\ export_types[i] = Pdf) =>
                              /\ buttons[nf + i].text = <<"E","x","p","o","r","t"," ","P","D","F">>
                              /\ buttons[nf + i].link.url = <<"/","a","d","m","i","n","/","b","l","o","g","/","p","o","s","t","/","e","x","p","o","r","t","/","p","d","f">>
                  /\ \A k \in 1..Len(urls) :
                        "extra_context" \in DOMAIN urls[k].kwargs =>
                            \E i \in 1..Len(buttons) : k \in RouteOfLink(buttons[i].link)

C5_Witness ==
    /\ IsChangelistResult
    /\ "is_export_request" \notin request.attrs
    /\ IsListResponse(result.response)
    /\ Len(result.response.context_data["export_buttons"]) = 4
    /\ export_types[1] = Pdf

\* C6: a request whose extra_context holds export_delimiter gets the host's
\* list response with the CSV template, Content-Type text/csv and
\* Content-Disposition 'attachment; filename=<slug of verbose_name>.csv',
\* the delimiter still in the context, for every delimiter.
C6_DelimitedResponse ==
    (IsChangelistResult /\ IsDelimitedContext(result.extra_context)) =>
        LET response == result.response
        IN  /\ response.kind \in {"TemplateResponse", "HttpResponseRedirect"}
            /\ response.template_name = "django_exportable_admin/change_list_csv.html"
            /\ response.headers["Content-Type"] = "text/csv"
            /\ response.headers["Content-Disposition"] =
                  IF meta = MetaPost
                  THEN <<"a","t","t","a","c","h","m","e","n","t",";"," ","f","i","l","e","n","a","m","e","=","b","l","o","g","-","p","o","s","t",".","c","s","v">>
                  ELSE <<"a","t","t","a","c","h","m","e","n","t",";"," ","f","i","l","e","n","a","m","e","=","t","a","g",".","c","s","v">>
            /\ response.has_context =>
                  /\ response.context_data["export_delimiter"]
                        = result.extra_context.d["export_delimiter"]
                  /\ response.context_data["cl"].query_set = result.query_set

C6_Witness ==
    /\ IsChangelistResult
    /\ IsDelimitedContext(result.extra_context)
    /\ result.extra_context.d["export_delimiter"] = <<"|">>
    /\ result.response.kind = "TemplateResponse"
    /\ meta = MetaPost

IsXlsResponse == IsChangelistResult /\ result.response.kind = "HttpResponse"

\* C7: the sheet has the header in row 0 and record i of the filtered and
\* sorted result set in row i + 1, nothing else; the header and every record
\* row are written from the same sequence of display fields, column j of a
\* record row holding the value of the field labelled in column j of the
\* header; an empty result set gives the header row only.
C7_SheetLayout ==
    IsXlsResponse =>
        LET sheet == result.response.sheet
            queryset == result.query_set
            fields == IF list_display = <<>> THEN <<>>
                      ELSE SubSeq(list_display, 2, Len(list_display))
        IN  /\ DOMAIN sheet = (0..Len(queryset)) \X (0..(Len(fields) - 1))
            /\ (queryset = <<>>) => \A c \in DOMAIN sheet : c[1] = 0
            /\ \A j \in Columns(sheet) :
                  LET f == fields[j + 1]
                  IN  /\ sheet[<<0, j>>] =
                            (IF f = F_id THEN <<"K","E","Y">>
                             ELSE IF f = F_name THEN <<"N","A","M","E">>
                             ELSE Upper(f))
                      /\ \A i \in 0..(Len(queryset) - 1) :
                            sheet[<<i + 1, j>>] =
                                (IF f = F_id THEN Decimal(queryset[i + 1][F_id].v)
                                 ELSE IF f = F_name THEN queryset[i + 1][F_name].v
                                 ELSE <<>>)

C7_Witness ==
    /\ IsXlsResponse
    /\ result.query_set = Descending(MaxRows)
    /\ Cardinality(Columns(result.response.sheet)) >= 2
    /\ result.response.sheet[<<1, 0>>] # result.response.sheet[<<1, 1>>]

\* C8 as stated: the sheet has one column for each name in list_display.
C8_ColumnPerDisplayName ==
    IsXlsResponse => Columns(result.response.sheet) = 0..(Len(list_display) - 1)

\* C8 amended: the sheet has one column for each name in list_display after
\* the first entry, in the header and in every record row, so the number of
\* columns is len(list_display) - 1, and 0 for an empty list_display.
C8_ColumnPerDisplayNameButFirst ==
    IsXlsResponse =>
        LET sheet == result.response.sheet
        IN  /\ Columns(sheet) = 0..(Len(list_display) - 2)
            /\ Cardinality(Columns(sheet)) = Max(0, Len(list_display) - 1)
            /\ \A i \in 0..Len(result.query_set), j \in 0..(Len(list_display) - 2) :
                  <<i, j>> \in DOMAIN sheet
            /\ \A j \in Columns(sheet) :
                  sheet[<<0, j>>] = get_verbose_name(list_display[j + 2])

C8_Witness ==
    /\ IsXlsResponse
    /\ Len(list_display) = 3
    /\ list_display[1] = F_id
    /\ result.query_set # <<>>

\* what holds of a handled request, whatever was handled before it
C9_RequestScoped ==
    IsChangelistResult =>
        LET ec == result.extra_context
            response == result.response
            export == ~ec.none /\ ("export_delimiter" \in DOMAIN ec.d
                                   \/ "export_type" \in DOMAIN ec.d)
        IN  /\ ("is_export_request" \in request.attrs) <=> export
            /\ request.attrs \subseteq {"is_export_request"}
            /\ (~ec.none /\ {"export_delimiter", "export_type"} \subseteq DOMAIN ec.d) =>
                  /\ response.kind # "HttpResponse"
                  /\ response.template_name = "django_exportable_admin/change_list_csv.html"
            /\ (export /\ IsListResponse(response)) =>
                  /\ response.context_data["cl"].paginator.per_page = export_queryset_limit
                  /\ response.context_data["cl"].paginator.orphans = 0
            /\ ~export =>
                  /\ response.kind \in {"TemplateResponse", "HttpResponseRedirect"}
                  /\ IsListResponse(response) =>
                        /\ response.template_name
                              = "django_exportable_admin/change_list_exportable.html"
                        /\ response.context_data["cl"].paginator.per_page = list_per_page
                        /\ Len(response.context_data["cl"].result_list) <= list_per_page
                        /\ "export_buttons" \in DOMAIN response.context_data
                        /\ Len(response.context_data["export_buttons"])
                              = Len(export_formats) + Len(export_types)

\* the class attributes and the built route table are left alone
C9_Frame ==
    /\ config' = config
    /\ (urls # <<>> => urls' = urls)

C10_TypeDispatch ==
    /\ urls # <<>> =>
          \A i \in 1..Len(export_types) :
              \E k \in 1..Len(urls) :
                  /\ urls[k].regex = ExpectedRegex(export_types[i])
                  /\ "extra_context" \in DOMAIN urls[k].kwargs
                  /\ urls[k].kwargs["extra_context"].d
                        = ("export_type" :> Lower(export_types[i]))
    /\ (IsChangelistResult /\ "is_export_request" \notin request.attrs
        /\ IsListResponse(result.response)) =>
          \A i \in 1..Len(export_types) :
              \E b \in 1..Len(result.response.context_data["export_buttons"]) :
                  /\ result.response.context_data["export_buttons"][b].text
                        = <<"E","x","p","o","r","t"," ">> \o Upper(export_types[i])
                  /\ result.response.context_data["export_buttons"][b].link.ok
    /\ (IsChangelistResult /\ IsTypeContext(result.extra_context)) =>
          /\ "is_export_request" \in request.attrs
          /\ IF result.extra_context.d["export_type"] = <<"x","l","s">>
             THEN /\ result.response.kind \in {"HttpResponse", "error"}
                  /\ result.response.kind = "HttpResponse" =>
                        {c[1] : c \in DOMAIN result.response.sheet}
                            \subseteq 0..Len(result.query_set)
             ELSE /\ result.response.kind = "error"
                  /\ result.response.exc = "AttributeError"

C10_Witness ==
    /\ IsChangelistResult
    /\ IsTypeContext(result.extra_context)
    /\ result.extra_context.d["export_type"] = <<"p","d","f">>
    /\ result.response.kind = "error"
    /\ \E i \in 1..Len(export_types) : export_types[i] = Pdf

====
